---- MODULE Spec2Model ----
(***************************************************************************)
(* Model of the RTXI clamp-protocol plugin: the Protocol container, the    *)
(* legacy per-tick runner (Component::exec) with its offline replay        *)
(* (Protocol::run), the current runner (Component::getProtocolAmplitude)   *)
(* with its offline replay (Protocol::dryrun), the Panel's run/load slots  *)
(* and the XML round trip (Protocol::toDoc / Protocol::fromDoc).           *)
(*                                                                         *)
(* Times are integers in milliseconds, levels are integers; every double   *)
(* computed from them is an exact rational or an IEEE special (inf, nan),  *)
(* so rounding of the last binary digit is not modelled.                   *)
(***************************************************************************)
EXTENDS Integers, Sequences, FiniteSets, TLC

VARIABLES
  variant,    \* which build of the plugin is running: "legacy" | "current" | "editor"
  protocol,   \* Panel::protocol, the segments vector handed to the runner
  period,     \* Panel::period, the sample period in ms
  numTrials,  \* Panel::numTrials / Component::numTrials
  run,        \* legacy runner fields of Panel used by Component::exec
  trace,      \* history: one entry per EXECUTE tick of the current trial
  comp,       \* current Component fields used by getProtocolAmplitude
  ctrace,     \* history: one entry per sample of the current runner
  fifo,       \* protocol_state messages written by Panel::toggleProtocol
  panel,      \* Panel GUI thread: run button and the load in progress
  dry,        \* locals of one call of Protocol::dryrun
  editor      \* ClampProtocolEditor::protocol and its saved document

vars == <<variant, protocol, period, numTrials, run, trace, comp, ctrace,
          fifo, panel, dry, editor>>

----------------------------------------------------------------------------
(* Bounds of the model.                                                    *)

MaxSegments == 2
MaxTrials == 2
MaxSweepIdx == 3
MaxTime == 5
MaxSamples == 5
MaxFifo == 1
MaxSteps == 2
MaxEdits == 1

----------------------------------------------------------------------------
(* double arithmetic: exact rationals n/d (d > 0, lowest terms) plus the   *)
(* IEEE specials.  A division by zero yields inf or nan, as on the FPU.    *)

Abs(x) == IF x < 0 THEN -x ELSE x

Sign(x) == IF x < 0 THEN -1 ELSE IF x > 0 THEN 1 ELSE 0

RECURSIVE GCD(_, _)
GCD(a, b) == IF b = 0 THEN a ELSE GCD(b, a % b)

\* C++ integer division and conversion double -> int: truncation toward zero
TruncDiv(a, b) ==
  LET q == Abs(a) \div Abs(b)
  IN IF Sign(a) * Sign(b) < 0 THEN -q ELSE q

\* C++ a % b: the sign follows the dividend
CRem(a, b) == a - b * TruncDiv(a, b)

Num(n, d) ==
  LET g == GCD(Abs(n), Abs(d))
  IN [k |-> "num", n |-> Sign(d) * (n \div g), d |-> Abs(d) \div g]

NaN == [k |-> "nan", n |-> 0, d |-> 0]

Inf(s) == [k |-> "inf", n |-> s, d |-> 0]

D(i) == Num(i, 1)

DSign(x) == Sign(x.n)

DAdd(x, y) ==
  CASE x.k = "nan" \/ y.k = "nan" -> NaN
    [] x.k = "inf" /\ y.k = "inf" -> IF x.n = y.n THEN x ELSE NaN
    [] x.k = "inf" -> x
    [] y.k = "inf" -> y
    [] OTHER -> Num(x.n * y.d + y.n * x.d, x.d * y.d)

DNeg(x) == IF x.k = "nan" THEN NaN ELSE [x EXCEPT !.n = -x.n]

DSub(x, y) == DAdd(x, DNeg(y))

DMul(x, y) ==
  CASE x.k = "nan" \/ y.k = "nan" -> NaN
    [] x.k = "inf" \/ y.k = "inf" ->
         IF DSign(x) * DSign(y) = 0 THEN NaN ELSE Inf(DSign(x) * DSign(y))
    [] OTHER -> Num(x.n * y.n, x.d * y.d)

DDiv(x, y) ==
  CASE x.k = "nan" \/ y.k = "nan" -> NaN
    [] x.k = "inf" /\ y.k = "inf" -> NaN
    [] x.k = "inf" -> Inf(IF DSign(y) < 0 THEN -x.n ELSE x.n)
    [] y.k = "inf" -> D(0)
    [] y.n = 0 -> IF x.n = 0 THEN NaN ELSE Inf(Sign(x.n))
    [] OTHER -> Num(x.n * y.d, x.d * y.n)

\* x < y on doubles: false when either side is nan
DLt(x, y) ==
  CASE x.k = "nan" \/ y.k = "nan" -> FALSE
    [] x.k = "inf" /\ y.k = "inf" -> x.n < y.n
    [] x.k = "inf" -> x.n < 0
    [] y.k = "inf" -> y.n > 0
    [] OTHER -> x.n * y.d < y.n * x.d

DGe(x, y) ==
  CASE x.k = "nan" \/ y.k = "nan" -> FALSE
    [] OTHER -> ~DLt(x, y)

\* static_cast<int>(double) of a finite value
DTrunc(x) == TruncDiv(x.n, x.d)

----------------------------------------------------------------------------
(* The Protocol container.                                                 *)

\* a ProtocolStep as std::vector::push_back({}) creates it
DefaultStep ==
  [ampMode |-> 0, stepType |-> "STEP", stepDuration |-> 0,
   deltaStepDuration |-> 0, holdingLevel1 |-> 0, deltaHoldingLevel1 |-> 0,
   holdingLevel2 |-> 0, deltaHoldingLevel2 |-> 0, pulseWidth |-> 0,
   pulseRate |-> 0]

\* a ProtocolSegment as emplace_back() creates it
DefaultSegment == [numSweeps |-> 1, steps |-> <<>>]

MkStep(type, dur, ddur, h1, dh1, h2, dh2, pw, pr) ==
  [DefaultStep EXCEPT !.stepType = type, !.stepDuration = dur,
     !.deltaStepDuration = ddur, !.holdingLevel1 = h1,
     !.deltaHoldingLevel1 = dh1, !.holdingLevel2 = h2,
     !.deltaHoldingLevel2 = dh2, !.pulseWidth = pw, !.pulseRate = pr]

numSegments(p) == Len(p)

numSweeps(p, seg_id) == p[seg_id + 1].numSweeps

numSteps(p, seg_id) == Len(p[seg_id + 1].steps)

\* segments.at(segment).steps.at(step): false when .at() throws out_of_range
getStepInRange(p, segment, step) ==
  /\ segment >= 0 /\ segment < Len(p)
  /\ step >= 0 /\ step < Len(p[segment + 1].steps)

getStep(p, segment, step) == p[segment + 1].steps[step + 1]

----------------------------------------------------------------------------
(* Protocols the Panel may hold.  A protocol file is arbitrary XML, so     *)
(* empty segments, zero sweeps and default (all zero) steps all occur.     *)

SweptSegment ==
  [numSweeps |-> 2,
   steps |-> <<MkStep("STEP", 2, 1, 5, 1, 0, 0, 0, 0),
               MkStep("RAMP", 3, 0, 0, 0, 4, 2, 0, 0)>>]

PulseSegment ==
  [numSweeps |-> 1,
   steps |-> <<MkStep("TRAIN", 4, 0, 3, 0, 0, 0, 1, 2000),
               MkStep("CURVE", 3, 0, 1, 0, -3, 0, 0, 0)>>]

DegenerateSegment ==
  [numSweeps |-> 1,
   steps |-> <<DefaultStep, MkStep("RAMP", 1, 0, 0, 0, 2, 0, 0, 0)>>]

ZeroSweepSegment ==
  [numSweeps |-> 0, steps |-> <<MkStep("STEP", 1, 0, 2, 0, 0, 0, 0, 0)>>]

ZeroRateSegment ==
  [numSweeps |-> 1, steps |-> <<MkStep("TRAIN", 2, 0, 7, 0, 0, 0, 1, 0)>>]

LegacySegments ==
  {SweptSegment, PulseSegment, DegenerateSegment, DefaultSegment,
   ZeroSweepSegment, ZeroRateSegment}

SeqsUpTo(S, n) == UNION {[1..m -> S] : m \in 0..n}

\* one segment, numSweeps = 2, one STEP step of 10 ms, 5.0 + 1.0 per sweep
ScenarioProtocol ==
  <<[numSweeps |-> 2, steps |-> <<MkStep("STEP", 10, 0, 5, 1, 0, 0, 0, 0)>>]>>

LegacyProtocols == SeqsUpTo(LegacySegments, MaxSegments) \cup {ScenarioProtocol}

\* sample periods in ms
Periods == {1, 2}

----------------------------------------------------------------------------
(* Legacy runner: Component::exec, one call per real-time tick.            *)

\* what an integer remainder by zero does on the build's target: the x86
\* idiv traps (SIGFPE), the ARM sdiv yields quotient 0
UBOutcomes == {"trap", "zero"}

\* Panel::initParameters; protocolMode is first written when a run starts.
\* now is RT::OS::getTime() * 1e-6, the wall clock in ms; data is the size of
\* the vector of input samples gathered for the plot
InitRun ==
  [protocolMode |-> "END", executeMode |-> "IDLE",
   segmentIdx |-> 0, sweepIdx |-> 0, stepIdx |-> 0, trialIdx |-> 0,
   numSweeps |-> 0, numSteps |-> 0, stepType |-> "STEP",
   stepTime |-> 0, stepEndTime |-> 0, stepOutput |-> D(0),
   rampIncrement |-> D(0), pulseWidth |-> D(0), pulseRate |-> 0,
   voltage |-> D(0), output |-> D(0), time |-> 0,
   fault |-> "none", ub |-> "none",
   intervalTime |-> 1000, now |-> 0, protocolEndTime |-> 0,
   plotting |-> FALSE, data |-> 0,
   token |-> [trial |-> 0, sweep |-> 0, points |-> 0],
   lengthCall |-> [seg_id |-> -1, withSweeps |-> FALSE, result |-> 0]]

\* values of the "Interval Time" parameter (ms)
IntervalTimes == {-1, 1}

junctionPotential == D(0)

outputFactor == Num(1, 1000)

\* output(0) = (voltage + junctionPotential) * outputFactor
OutputOf(voltage) == DMul(DAdd(voltage, junctionPotential), outputFactor)

\* faulty variant: one trial more is started before the run ends
EndStageOneMore(r, trials) ==
  IF r.protocolMode # "END" THEN r
  ELSE IF r.trialIdx < trials
       THEN [r EXCEPT !.trialIdx = @ + 1, !.protocolEndTime = r.now,
                      !.protocolMode = "WAIT"]
       ELSE [r EXCEPT !.executeMode = "IDLE", !.output = D(0)]

\* if (protocolMode == END) { ... }
EndStage(r, trials) ==
  IF r.protocolMode # "END" THEN r
  ELSE IF r.trialIdx < trials - 1
       THEN [r EXCEPT !.trialIdx = @ + 1, !.protocolEndTime = r.now,
                      !.protocolMode = "WAIT"]
       ELSE [r EXCEPT !.executeMode = "IDLE", !.output = D(0)]

\* if (protocolMode == SEGMENT) { ... }
SegmentStage(r, p) ==
  IF r.protocolMode # "SEGMENT" \/ r.fault # "none" THEN r
  ELSE IF r.segmentIdx < 0 \/ r.segmentIdx >= numSegments(p)
       THEN [r EXCEPT !.fault = "out_of_range"]
       ELSE [r EXCEPT !.numSweeps = numSweeps(p, r.segmentIdx),
                      !.numSteps = numSteps(p, r.segmentIdx),
                      !.protocolMode = "STEP"]

\* faulty variant: the "- 1" of the step end time dropped
StepEndTimeNoMinusOne(step, sweepIdx, per) ==
  DTrunc(DDiv(D(step.stepDuration + step.deltaStepDuration * sweepIdx),
              D(per)))

\* stepEndTime = ((stepDuration + deltaStepDuration * sweepIdx) / period) - 1,
\* stored in an int
StepEndTime(step, sweepIdx, per) ==
  DTrunc(DSub(DDiv(D(step.stepDuration + step.deltaStepDuration * sweepIdx),
                   D(per)),
              D(1)))

\* faulty variant: the per-sweep increment of the level left out
StepOutputNoDelta(step, sweepIdx) == D(step.holdingLevel1)

\* stepOutput = holdingLevel1 + deltaHoldingLevel1 * sweepIdx
StepOutput(step, sweepIdx) ==
  D(step.holdingLevel1 + step.deltaHoldingLevel1 * sweepIdx)

\* if (protocolMode == STEP) { ... }
StepStage(r, p, per) ==
  IF r.protocolMode # "STEP" \/ r.fault # "none" THEN r
  ELSE IF ~getStepInRange(p, r.segmentIdx, r.stepIdx)
       THEN [r EXCEPT !.fault = "out_of_range"]
       ELSE
    LET step == getStep(p, r.segmentIdx, r.stepIdx)
        endT == StepEndTime(step, r.sweepIdx, per)
        out == StepOutput(step, r.sweepIdx)
        h2 == D(step.holdingLevel2 + step.deltaHoldingLevel2 * r.sweepIdx)
    IN [r EXCEPT
          !.stepType = step.stepType,
          !.stepTime = 0,
          !.stepEndTime = endT,
          !.stepOutput = out,
          !.rampIncrement =
             IF step.stepType \in {"RAMP", "CURVE"}
             THEN DDiv(DSub(h2, out), D(endT)) ELSE @,
          !.pulseWidth =
             IF step.stepType = "TRAIN"
             THEN DDiv(D(step.pulseWidth), D(per)) ELSE @,
          !.pulseRate =
             IF step.stepType = "TRAIN"
             THEN DTrunc(DDiv(D(step.pulseRate), DMul(D(per), D(1000))))
             ELSE @,
          !.protocolMode = "EXECUTE"]

\* faulty variant: the ramp evaluated one tick late
ExecVoltageLate(r, rem) ==
  CASE r.stepType = "RAMP" ->
         DAdd(r.stepOutput, DMul(D(r.stepTime + 1), r.rampIncrement))
    [] r.stepType = "TRAIN" ->
         IF DLt(D(rem), r.pulseWidth) THEN r.stepOutput ELSE D(0)
    [] OTHER -> r.stepOutput

\* the switch (stepType) of the EXECUTE state: the voltage of this tick
ExecVoltage(r, rem) ==
  CASE r.stepType = "STEP" -> r.stepOutput
    [] r.stepType = "RAMP" ->
         DAdd(r.stepOutput, DMul(D(r.stepTime), r.rampIncrement))
    [] r.stepType = "TRAIN" ->
         IF DLt(D(rem), r.pulseWidth) THEN r.stepOutput ELSE D(0)
    [] r.stepType = "CURVE" ->
         IF DGe(r.rampIncrement, D(0))
         THEN DAdd(r.stepOutput,
                   DDiv(DMul(DMul(r.rampIncrement, D(r.stepTime)),
                             D(r.stepTime)),
                        D(r.stepEndTime)))
         ELSE DSub(DAdd(r.stepOutput,
                        DMul(DMul(D(2), r.rampIncrement), D(r.stepTime))),
                   DDiv(DMul(DMul(r.rampIncrement, D(r.stepTime)),
                             D(r.stepTime)),
                        D(r.stepEndTime)))

\* faulty variant: the segment advances when the steps are exhausted, the sweep when
\* the segments are (sweep-major order)
AdvanceCursorsSweepMajor(r, p) ==
  LET t == [r EXCEPT !.stepTime = @ + 1]
  IN IF ~(t.stepTime > t.stepEndTime) THEN t
     ELSE LET s1 == [t EXCEPT !.stepIdx = @ + 1, !.protocolMode = "STEP"]
          IN IF s1.stepIdx # s1.numSteps THEN s1
             ELSE LET s2 == [s1 EXCEPT !.segmentIdx = @ + 1, !.stepIdx = 0,
                                       !.protocolMode = "SEGMENT"]
                  IN IF s2.segmentIdx < numSegments(p) THEN s2
                     ELSE IF s2.sweepIdx + 1 < s2.numSweeps
                          THEN [s2 EXCEPT !.segmentIdx = 0,
                                          !.sweepIdx = @ + 1]
                          ELSE [s2 EXCEPT !.sweepIdx = 0,
                                          !.protocolMode = "END"]

\* faulty variant: the sweeps are exhausted once sweepIdx >= numSweeps
AdvanceCursorsSweepGe(r, p) ==
  LET t == [r EXCEPT !.stepTime = @ + 1]
  IN IF ~(t.stepTime > t.stepEndTime) THEN t
     ELSE LET s1 == [t EXCEPT !.stepIdx = @ + 1, !.protocolMode = "STEP"]
          IN IF s1.stepIdx # s1.numSteps THEN s1
             ELSE LET s2 == [s1 EXCEPT !.sweepIdx = @ + 1, !.stepIdx = 0]
                  IN IF s2.sweepIdx < s2.numSweeps THEN s2
                     ELSE [s2 EXCEPT
                             !.segmentIdx = @ + 1,
                             !.sweepIdx = 0,
                             !.protocolMode =
                                IF s2.segmentIdx + 1 >= numSegments(p)
                                THEN "END" ELSE "SEGMENT"]

\* faulty variant: the sweep index is kept when the segment changes
AdvanceCursorsKeepSweep(r, p) ==
  LET t == [r EXCEPT !.stepTime = @ + 1]
  IN IF ~(t.stepTime > t.stepEndTime) THEN t
     ELSE LET s1 == [t EXCEPT !.stepIdx = @ + 1, !.protocolMode = "STEP"]
          IN IF s1.stepIdx # s1.numSteps THEN s1
             ELSE LET s2 == [s1 EXCEPT !.sweepIdx = @ + 1, !.stepIdx = 0]
                  IN IF s2.sweepIdx # s2.numSweeps THEN s2
                     ELSE [s2 EXCEPT
                             !.segmentIdx = @ + 1,
                             !.protocolMode =
                                IF s2.segmentIdx + 1 >= numSegments(p)
                                THEN "END" ELSE "SEGMENT"]

\* stepTime++ and, if (stepTime > stepEndTime), the cursor advancement
AdvanceCursors(r, p) ==
  LET t == [r EXCEPT !.stepTime = @ + 1]
  IN IF ~(t.stepTime > t.stepEndTime) THEN t
     ELSE LET s1 == [t EXCEPT !.stepIdx = @ + 1, !.protocolMode = "STEP"]
          IN IF s1.stepIdx # s1.numSteps THEN s1
             ELSE LET s2 == [s1 EXCEPT !.sweepIdx = @ + 1, !.stepIdx = 0]
                  IN IF s2.sweepIdx # s2.numSweeps THEN s2
                     ELSE [s2 EXCEPT
                             !.segmentIdx = @ + 1,
                             !.sweepIdx = 0,
                             !.protocolMode =
                                IF s2.segmentIdx + 1 >= numSegments(p)
                                THEN "END" ELSE "SEGMENT"]

\* the plotting parts of the EXECUTE state: data.push_back after stepTime++,
\* and at the end of a step the token (trial, sweep, points = data.size())
\* written with the data, data.clear() and one more data.push_back
WriteToken(before, after) ==
  IF ~before.plotting THEN after
  ELSE IF ~(before.stepTime + 1 > before.stepEndTime)
       THEN [after EXCEPT !.data = before.data + 1]
       ELSE [after EXCEPT
               !.token = [trial |-> before.trialIdx, sweep |-> before.sweepIdx,
                          points |-> before.data + 1],
               !.data = 1]

\* if (protocolMode == EXECUTE) { ... }; u is what a remainder by zero does
ExecuteStage(r, p, u) ==
  IF r.protocolMode # "EXECUTE" \/ r.fault # "none" THEN r
  ELSE IF r.stepType = "TRAIN" /\ r.pulseRate = 0 /\ u = "trap"
       THEN [r EXCEPT !.fault = "SIGFPE", !.ub = u]
       ELSE
    LET byZero == r.stepType = "TRAIN" /\ r.pulseRate = 0
        rem == IF byZero THEN r.stepTime
               ELSE IF r.stepType = "TRAIN" THEN CRem(r.stepTime, r.pulseRate)
               ELSE 0
        v == ExecVoltage(r, rem)
        w == [r EXCEPT !.voltage = v, !.output = OutputOf(v),
                       !.ub = IF byZero THEN u ELSE @]
    IN WriteToken(w, AdvanceCursors(w, p))

\* whether the EXECUTE state of this tick computed a voltage
Executes(r, u) ==
  /\ r.protocolMode = "EXECUTE" /\ r.fault = "none"
  /\ ~(r.stepType = "TRAIN" /\ r.pulseRate = 0 /\ u = "trap")

\* faulty variant: the output is set to zero while the runner waits
WaitStageZeroes(r, per) ==
  IF r.fault # "none" THEN r
  ELSE IF r.protocolMode = "WAIT"
       THEN IF r.now - r.protocolEndTime > r.intervalTime
            THEN [r EXCEPT !.time = 0, !.segmentIdx = 0,
                           !.protocolMode = "SEGMENT",
                           !.executeMode = "PROTOCOL"]
            ELSE [r EXCEPT !.output = D(0)]
       ELSE [r EXCEPT !.time = @ + per]

\* faulty variant: the wait ends when the interval is reached, not exceeded
WaitStageGe(r, per) ==
  IF r.fault # "none" THEN r
  ELSE IF r.protocolMode = "WAIT"
       THEN IF r.now - r.protocolEndTime >= r.intervalTime
            THEN [r EXCEPT !.time = 0, !.segmentIdx = 0,
                           !.protocolMode = "SEGMENT",
                           !.executeMode = "PROTOCOL"]
            ELSE r
       ELSE [r EXCEPT !.time = @ + per]

\* if (protocolMode == WAIT) { ... return; }  time += period;
WaitStage(r, per) ==
  IF r.fault # "none" THEN r
  ELSE IF r.protocolMode = "WAIT"
       THEN IF r.now - r.protocolEndTime > r.intervalTime
            THEN [r EXCEPT !.time = 0, !.segmentIdx = 0,
                           !.protocolMode = "SEGMENT",
                           !.executeMode = "PROTOCOL"]
            ELSE r
       ELSE [r EXCEPT !.time = @ + per]

\* the run-start event posted by toggleProtocol: cursors to (0,0,0,0), the
\* state machine to SEGMENT
ToggleProtocolEventCallback(r) ==
  [InitRun EXCEPT !.protocolMode = "SEGMENT", !.executeMode = "PROTOCOL",
                  !.ub = r.ub, !.intervalTime = r.intervalTime,
                  !.now = r.now, !.plotting = r.plotting, !.data = r.data]

\* ClampProtocol::toggleProtocol with the run button checked
LegacyToggleProtocol ==
  /\ variant = "legacy"
  /\ run.executeMode = "IDLE" /\ run.fault = "none" /\ trace = <<>>
  /\ numSegments(protocol) # 0
  /\ run' = ToggleProtocolEventCallback(run)
  /\ UNCHANGED <<variant, protocol, period, numTrials, trace, comp, ctrace,
                 fifo, panel, dry, editor>>

\* the sum in Protocol::segmentLength: time += step.stepDuration
RECURSIVE SumDurations(_)
SumDurations(steps) ==
  IF steps = <<>> THEN 0
  ELSE Head(steps).stepDuration + SumDurations(Tail(steps))

\* Protocol::segmentLength(seg_id, period, withSweeps):
\* time *= numSweeps * withSweeps; return time / period (converted to int)
segmentLength(p, seg_id, per, withSweeps) ==
  LET time == SumDurations(p[seg_id + 1].steps)
      factor == p[seg_id + 1].numSweeps * (IF withSweeps THEN 1 ELSE 0)
  IN DTrunc(DDiv(D(time * factor), D(per)))

\* a call protocol.segmentLength(seg_id, period, withSweeps) on a stored
\* segment, as the plot code makes it
SegmentLength ==
  /\ variant = "legacy"
  /\ run.executeMode = "IDLE" /\ run.fault = "none" /\ trace = <<>>
  /\ run.lengthCall.seg_id = -1
  /\ \E seg_id \in 0..(numSegments(protocol) - 1), withSweeps \in BOOLEAN :
       run' = [run EXCEPT !.lengthCall =
                 [seg_id |-> seg_id, withSweeps |-> withSweeps,
                  result |-> segmentLength(protocol, seg_id, period,
                                           withSweeps)]]
  /\ UNCHANGED <<variant, protocol, period, numTrials, trace, comp, ctrace,
                 fifo, panel, dry, editor>>

TraceEntry(before, after) ==
  [segmentIdx |-> before.segmentIdx, sweepIdx |-> before.sweepIdx,
   stepIdx |-> before.stepIdx, stepEndTime |-> before.stepEndTime,
   voltage |-> after.voltage]

\* one real-time tick of Component::exec
Exec ==
  /\ variant = "legacy"
  /\ run.executeMode = "PROTOCOL" /\ run.fault = "none"
  /\ run.sweepIdx <= MaxSweepIdx
  /\ \E u \in UBOutcomes :
       /\ run.ub \in {"none", u}
       /\ LET r1 == EndStage(run, numTrials)
              r2 == SegmentStage(r1, protocol)
              r3 == StepStage(r2, protocol, period)
              r4 == ExecuteStage(r3, protocol, u)
              r5 == WaitStage(r4, period)
          IN /\ run' = [r5 EXCEPT !.now = @ + period]
             /\ trace' = IF Executes(r3, u)
                         THEN Append(trace, TraceEntry(r3, r4))
                         ELSE IF r4.protocolMode = "WAIT"
                                 /\ r5.protocolMode = "SEGMENT"
                              THEN <<>> ELSE trace
  /\ UNCHANGED <<variant, protocol, period, numTrials, comp, ctrace, fifo,
                 panel, dry, editor>>

----------------------------------------------------------------------------
(* Protocol::run(period): the offline replay of the legacy runner.  One    *)
(* iteration of its while loop pushes one sample; the function is computed *)
(* here up to a given number of iterations.                                *)

\* the locals of Protocol::run before the loop
RunLocals ==
  [protocolMode |-> "SEGMENT", segmentIdx |-> 0, sweepIdx |-> 0,
   stepIdx |-> 0, sweeps |-> 0, steps |-> 0, stepType |-> "STEP",
   stepTime |-> 0, stepEndTime |-> 0, stepOutput |-> D(0),
   rampIncrement |-> D(0), pulseWidth |-> D(0), pulseRate |-> 0,
   output |-> D(0), fault |-> "none", outputVector |-> <<>>]

\* the SEGMENT and STEP blocks of the loop body
RunInitStep(s, p, per) ==
  LET a == IF s.protocolMode # "SEGMENT" THEN s
           ELSE [s EXCEPT !.sweeps = numSweeps(p, s.segmentIdx),
                          !.steps = numSteps(p, s.segmentIdx),
                          !.protocolMode = "STEP"]
  IN IF a.protocolMode # "STEP" THEN a
     ELSE IF ~getStepInRange(p, a.segmentIdx, a.stepIdx)
          THEN [a EXCEPT !.fault = "out_of_range"]
          ELSE
       LET step == getStep(p, a.segmentIdx, a.stepIdx)
           endT == DTrunc(DSub(DDiv(D(step.stepDuration
                                      + step.deltaStepDuration * a.sweepIdx),
                                    D(per)),
                               D(1)))
           so == D(step.holdingLevel1 + step.deltaHoldingLevel1 * a.sweepIdx)
           h2 == D(step.holdingLevel2 + step.deltaHoldingLevel2 * a.sweepIdx)
       IN [a EXCEPT
             !.stepType = step.stepType, !.stepTime = 0,
             !.stepEndTime = endT, !.stepOutput = so,
             !.rampIncrement =
                IF step.stepType \in {"RAMP", "CURVE"}
                THEN DDiv(DSub(h2, so), D(endT)) ELSE @,
             !.pulseWidth =
                IF step.stepType = "TRAIN"
                THEN DDiv(D(step.pulseWidth), D(per)) ELSE @,
             !.pulseRate =
                IF step.stepType = "TRAIN"
                THEN DTrunc(DDiv(D(step.pulseRate), DMul(D(per), D(1000))))
                ELSE @,
             !.protocolMode = "EXECUTE"]

\* the switch (stepType) of the loop body
RunOutput(s, u) ==
  CASE s.stepType = "STEP" -> s.stepOutput
    [] s.stepType = "RAMP" ->
         DAdd(s.stepOutput, DMul(D(s.stepTime), s.rampIncrement))
    [] s.stepType = "TRAIN" ->
         IF DLt(D(IF s.pulseRate = 0 THEN s.stepTime
                  ELSE CRem(s.stepTime, s.pulseRate)),
                s.pulseWidth)
         THEN s.stepOutput ELSE D(0)
    [] s.stepType = "CURVE" ->
         IF DGe(s.rampIncrement, D(0))
         THEN DAdd(s.stepOutput,
                   DDiv(DMul(DMul(s.rampIncrement, D(s.stepTime)),
                             D(s.stepTime)),
                        D(s.stepEndTime)))
         ELSE DSub(DAdd(s.stepOutput,
                        DMul(DMul(D(2), s.rampIncrement), D(s.stepTime))),
                   DDiv(DMul(DMul(s.rampIncrement, D(s.stepTime)),
                             D(s.stepTime)),
                        D(s.stepEndTime)))

\* stepTime++ and the cursor advancement of the loop body
RunAdvance(s, p) ==
  LET t == [s EXCEPT !.stepTime = @ + 1]
  IN IF ~(t.stepTime > t.stepEndTime) THEN t
     ELSE LET s1 == [t EXCEPT !.stepIdx = @ + 1, !.protocolMode = "STEP"]
          IN IF s1.stepIdx # s1.steps THEN s1
             ELSE LET s2 == [s1 EXCEPT !.sweepIdx = @ + 1, !.stepIdx = 0]
                  IN IF s2.sweepIdx # s2.sweeps THEN s2
                     ELSE [s2 EXCEPT
                             !.segmentIdx = @ + 1,
                             !.sweepIdx = 0,
                             !.protocolMode =
                                IF s2.segmentIdx + 1 >= numSegments(p)
                                THEN "END" ELSE "SEGMENT"]

\* one iteration of while (protocolMode != END)
RunIteration(s, p, per, u) ==
  IF s.protocolMode = "SEGMENT"
     /\ (s.segmentIdx < 0 \/ s.segmentIdx >= numSegments(p))
  THEN [s EXCEPT !.fault = "out_of_range"]
  ELSE
    LET a == RunInitStep(s, p, per)
    IN IF a.fault # "none" THEN a
       ELSE IF a.stepType = "TRAIN" /\ a.pulseRate = 0 /\ u = "trap"
            THEN [a EXCEPT !.fault = "SIGFPE"]
            ELSE LET o == RunOutput(a, u)
                     b == RunAdvance([a EXCEPT !.output = o], p)
                 IN [b EXCEPT !.outputVector = Append(@, o)]

\* the state of Protocol::run after at most n iterations
RECURSIVE RunFor(_, _, _, _, _)
RunFor(s, p, per, u, n) ==
  IF n = 0 \/ s.protocolMode = "END" \/ s.fault # "none" THEN s
  ELSE RunFor(RunIteration(s, p, per, u), p, per, u, n - 1)

----------------------------------------------------------------------------
(* The XML document of a protocol.  An attribute value is modelled by the  *)
(* number its text denotes.                                                *)

\* QString::number(double): format 'g' with 6 significant digits
RECURSIVE RoundTo6(_)
RoundTo6(x) ==
  IF Abs(x) < 1000000 THEN x
  ELSE 10 * RoundTo6(Sign(x) * ((Abs(x) + 5) \div 10))

\* QString::toInt: 0 when the text is no int
ToInt(x) == IF x > 2147483647 \/ x < -2147483647 - 1 THEN 0 ELSE x

\* Protocol::stepToNode: the attributes written for one step
stepToNode(step) ==
  [ampMode |-> step.ampMode, stepType |-> step.stepType,
   stepDuration |-> RoundTo6(step.stepDuration),
   deltaStepDuration |-> RoundTo6(step.deltaStepDuration),
   holdingLevel1 |-> RoundTo6(step.holdingLevel1),
   deltaHoldingLevel1 |-> RoundTo6(step.deltaHoldingLevel1),
   holdingLevel2 |-> RoundTo6(step.holdingLevel2),
   deltaHoldingLevel2 |-> RoundTo6(step.deltaHoldingLevel2)]

\* Protocol::segmentToNode
segmentToNode(segment) ==
  [numSweeps |-> segment.numSweeps,
   steps |-> [i \in DOMAIN segment.steps |-> stepToNode(segment.steps[i])]]

\* Protocol::toDoc: one segment element per segment
toDoc(p) == [i \in DOMAIN p |-> segmentToNode(p[i])]

\* one pass of the segment loop of Protocol::fromDoc on the segments read so
\* far: emplace_back, numSweeps from the attribute, then the step loop, whose
\* getStep(segmentCount, stepCount) is .at() on the still empty steps vector
fromDocSegment(segments, node) ==
  LET added == Append(segments,
                      [DefaultSegment EXCEPT !.numSweeps = ToInt(node.numSweeps)])
  IN IF node.steps = <<>>
     THEN [segments |-> added, fault |-> "none"]
     ELSE IF getStepInRange(added, Len(added) - 1, 0)
          THEN [segments |-> added, fault |-> "none"]
          ELSE [segments |-> added, fault |-> "out_of_range"]

\* Protocol::fromDoc: clear(), then the segment loop until it ends or throws
RECURSIVE fromDocLoop(_, _)
fromDocLoop(acc, nodes) ==
  IF nodes = <<>> \/ acc.fault # "none" THEN acc
  ELSE fromDocLoop(fromDocSegment(acc.segments, Head(nodes)), Tail(nodes))

fromDoc(doc) == fromDocLoop([segments |-> <<>>, fault |-> "none"], doc)

----------------------------------------------------------------------------
(* Current build: protocols, the Panel (GUI thread) and the Component      *)
(* (real-time thread).                                                     *)

\* the current ProtocolStep has the types STEP and RAMP and six parameters
CStep(type, dur, ddur, h1, dh1, h2, dh2) ==
  MkStep(type, dur, ddur, h1, dh1, h2, dh2, 0, 0)

SingleStepSegment ==
  [numSweeps |-> 2, steps |-> <<CStep("STEP", 500, 0, 5, 1, 0, 0)>>]

TwoStepSegment ==
  [numSweeps |-> 2,
   steps |-> <<CStep("RAMP", 1500, -1000, 1, 0, 4, 2),
               CStep("STEP", 500, 0, 2, 0, 0, 0)>>]

NegativeSegment ==
  [numSweeps |-> 1, steps |-> <<CStep("STEP", -500, 0, 3, 0, 0, 0)>>]

\* the protocols the Panel holds when a session starts
PanelProtocols ==
  SeqsUpTo({SingleStepSegment, TwoStepSegment, DefaultSegment}, MaxSegments)

\* the protocols open in the editor
EditorProtocols ==
  SeqsUpTo({SingleStepSegment, NegativeSegment, DefaultSegment}, MaxSegments)

\* the files the user may pick in Panel::loadProtocolFile
Docs == {toDoc(<<DefaultSegment>>), toDoc(<<SingleStepSegment>>)}

\* beside an open editor the variable protocol is the editor's member and the
\* Panel's own Protocol member is the field protocol of panel
InitPanel ==
  [runChecked |-> FALSE, recording |-> FALSE,
   load |-> [pc |-> "idle", doc |-> <<>>], protocol |-> <<>>,
   fault |-> "none"]

\* junctionPotential and outputFactor of the Component have no initializer and
\* are first assigned in the MODIFY state: the values they may hold in a run
JunctionAndFactor == {<<D(0), D(1)>>, <<D(1), D(2)>>}

\* Component's members; the cursors are first written when a run starts.
\* plotting has no writer under src: the value it has during a run is drawn
\* when the session starts, with one clock and one scaling
InitComp ==
  [state |-> "PAUSE", protocol |-> "null", handed |-> <<>>,
   segmentIdx |-> 0, sweepIdx |-> 0, stepIdx |-> 0, trialIdx |-> 0,
   reference_time |-> 0, current_time |-> 1, clockStep |-> 0,
   junctionPotential |-> D(0), outputFactor |-> D(1), output |-> D(0),
   plotting |-> FALSE, fault |-> "none"]

\* both threads of the process are alive
Alive == panel.fault = "none" /\ comp.fault = "none"

\* Panel::toggleProtocol, the slot of the checkable run button
ToggleProtocol ==
  /\ variant = "current" /\ Alive
  /\ panel.load.pc = "idle"
  /\ Len(fifo) < MaxFifo
  /\ LET checked == ~panel.runChecked
     IN IF checked /\ numSegments(protocol) = 0
        THEN /\ panel' = [panel EXCEPT !.runChecked = FALSE]
             /\ fifo' = fifo
        ELSE /\ panel' = [panel EXCEPT !.runChecked = checked]
             /\ fifo' = Append(fifo, [running |-> checked,
                                      plotting |-> panel.recording,
                                      protocol |-> "panel"])
  /\ UNCHANGED <<variant, protocol, period, numTrials, run, trace, comp,
                 ctrace, dry, editor>>

\* Panel::loadProtocolFile up to and including the clear() of fromDoc. Beside
\* an open editor, whose slots run on the same thread, the whole slot is one
\* step, taken before the editor's first slot; the period and the number of
\* trials play no part in it, and it is taken with the first of each
LoadProtocolFile ==
  /\ Alive
  /\ panel.load.pc = "idle"
  /\ \E doc \in Docs :
       \/ /\ variant = "current"
          /\ panel' = [panel EXCEPT !.load = [pc |-> "segments", doc |-> doc]]
          /\ protocol' = <<>>
       \/ /\ variant = "editor"
          /\ editor.pc = "edit" /\ editor.edits = 0 /\ dry.pc = "idle"
          /\ period = 1 /\ numTrials = 1
          /\ LET res == fromDoc(doc)
             IN panel' = [panel EXCEPT !.protocol = res.segments,
                                       !.fault = res.fault]
          /\ protocol' = protocol
  /\ UNCHANGED <<variant, period, numTrials, run, trace, comp, ctrace, fifo,
                 dry, editor>>

\* one pass of the segment loop of fromDoc, or its end and the return of
\* loadProtocolFile; an exception leaves the slot uncaught
LoadSegment ==
  /\ variant = "current" /\ Alive
  /\ panel.load.pc = "segments"
  /\ IF panel.load.doc = <<>>
     THEN /\ panel' = [panel EXCEPT !.load = [pc |-> "idle", doc |-> <<>>]]
          /\ protocol' = protocol
     ELSE LET res == fromDocSegment(protocol, Head(panel.load.doc))
          IN /\ protocol' = res.segments
             /\ panel' = [panel EXCEPT !.load.doc = Tail(@),
                                       !.fault = res.fault]
  /\ UNCHANGED <<variant, period, numTrials, run, trace, comp, ctrace, fifo,
                 dry, editor>>

\* the real-time side takes a protocol_state off the fifo: a run starts on
\* the protocol it points to with the cursors at (0,0,0,0), or the run stops
ObserveProtocolState ==
  /\ variant = "current" /\ Alive
  /\ fifo # <<>>
  /\ comp' = IF Head(fifo).running
             THEN [comp EXCEPT !.state = "EXEC", !.protocol = Head(fifo).protocol,
                               !.handed = protocol,
                               !.segmentIdx = 0, !.sweepIdx = 0,
                               !.stepIdx = 0, !.trialIdx = 0]
             ELSE [comp EXCEPT !.state = "PAUSE"]
  /\ fifo' = Tail(fifo)
  /\ ctrace' = <<>>
  /\ UNCHANGED <<variant, protocol, period, numTrials, run, trace, panel,
                 dry, editor>>

\* the "Verify that indices are correct" block of getProtocolAmplitude
VerifyIndices(c, p, current_time) ==
  IF c.segmentIdx < 0 \/ c.segmentIdx >= numSegments(p)
  THEN [c EXCEPT !.fault = "out_of_range"]
  ELSE
    LET c1 == IF c.stepIdx >= numSteps(p, c.segmentIdx)
              THEN [c EXCEPT !.stepIdx = 0, !.segmentIdx = @ + 1,
                             !.reference_time = current_time]
              ELSE c
        c2 == IF c1.segmentIdx >= numSegments(p)
              THEN [c1 EXCEPT !.segmentIdx = 0, !.sweepIdx = @ + 1]
              ELSE c1
    IN IF c2.sweepIdx >= numSweeps(p, c2.segmentIdx)
       THEN [c2 EXCEPT !.trialIdx = @ + 1, !.segmentIdx = 0]
       ELSE c2

\* time_elapsed_ms = static_cast<double>(current_time - reference_time) * 1e3
TimeElapsedMs(c, current_time) == (current_time - c.reference_time) * 1000

\* the switch (step.stepType) of getProtocolAmplitude
Amplitude(step, sweepIdx, elapsed) ==
  CASE step.stepType = "STEP" ->
         D(step.holdingLevel1 + step.deltaHoldingLevel1 * sweepIdx)
    [] step.stepType = "RAMP" ->
         LET y2 == step.holdingLevel2 + step.deltaHoldingLevel2 * sweepIdx
             y1 == step.holdingLevel1 + step.deltaHoldingLevel1 * sweepIdx
             max_time == step.stepDuration + step.deltaStepDuration * sweepIdx
             slope == DDiv(D(y2 - y1), D(max_time))
             time_ms == IF elapsed < max_time THEN elapsed ELSE max_time
         IN DMul(slope, D(time_ms))
    [] OTHER -> D(0)

\* stepIdx += (time_elapsed_ms > stepDuration + deltaStepDuration * segmentIdx)
StepAdvance(step, segmentIdx, elapsed) ==
  IF elapsed > step.stepDuration + step.deltaStepDuration * segmentIdx
  THEN 1 ELSE 0

\* what fifo->writeRT(&data, ...) does: Component::fifo is nullptr by its
\* initializer and no code under src assigns it, so the call faults unless the
\* hand-off has provided a fifo
FifoWriteOutcomes == {"segv", "written"}

\* no token: plotting is off
NoToken ==
  [stepStart |-> -1, time |-> -1, trial |-> -1, segment |-> -1, sweep |-> -1,
   step |-> -1]

\* data_token_t data {reference_time, current_time, readinput(0), segmentIdx,
\* sweepIdx, stepIdx}: the members are initialized in the order of their
\* declaration (stepStart, time, value, trial, segment, sweep, step), the
\* last one, left without an initializer, to 0
DataToken(c, current_time) ==
  [stepStart |-> c.reference_time, time |-> current_time,
   trial |-> c.segmentIdx, segment |-> c.sweepIdx, sweep |-> c.stepIdx,
   step |-> 0]

\* Component::getProtocolAmplitude(current_time): the component afterwards,
\* the value returned, whether a step produced it and the index of that step
getProtocolAmplitude(c, p, current_time, trials) ==
  IF numSegments(p) = 0
  THEN [comp |-> c, voltage |-> D(0), sampled |-> FALSE, stepIdx |-> 0, token |-> NoToken]
  ELSE
    LET v == VerifyIndices(c, p, current_time)
    IN IF v.fault # "none"
       THEN [comp |-> v, voltage |-> D(0), sampled |-> FALSE, stepIdx |-> 0, token |-> NoToken]
       ELSE IF v.trialIdx >= trials
       THEN [comp |-> [v EXCEPT !.state = "PAUSE"], voltage |-> D(0),
             sampled |-> FALSE, stepIdx |-> 0, token |-> NoToken]
       ELSE IF ~getStepInRange(p, v.segmentIdx, v.stepIdx)
       THEN [comp |-> [v EXCEPT !.fault = "out_of_range"], voltage |-> D(0),
             sampled |-> FALSE, stepIdx |-> 0, token |-> NoToken]
       ELSE
         LET step == getStep(p, v.segmentIdx, v.stepIdx)
             elapsed == TimeElapsedMs(v, current_time)
             w == [v EXCEPT !.stepIdx =
                              @ + StepAdvance(step, v.segmentIdx, elapsed)]
         IN [comp |-> w,
             voltage |-> Amplitude(step, v.sweepIdx, elapsed),
             sampled |-> TRUE, stepIdx |-> v.stepIdx,
             token |-> IF w.plotting THEN DataToken(w, current_time)
                       ELSE NoToken]

\* Component::execute, one real-time tick in the states EXEC and PAUSE (the
\* other states are entered by the host alone); current_time is the value the
\* host returns on this tick, the same on every tick (clockStep = 0) or
\* growing from tick to tick (clockStep = 1)
Execute ==
  /\ variant = "current" /\ Alive
  /\ comp.protocol # "null" \/ comp.state = "PAUSE"
  /\ Len(ctrace) < MaxSamples
  /\ comp.current_time <= MaxTime
  /\ LET current_time == comp.current_time
     IN IF comp.state = "EXEC"
        THEN LET res == getProtocolAmplitude(comp, protocol, current_time,
                                             numTrials)
                 c == res.comp
             IN \E u \in FifoWriteOutcomes :
                /\ res.token = NoToken => u = "written"
                /\ comp' = IF u = "segv"
                           THEN [c EXCEPT !.fault = "segv"]
                           ELSE [c EXCEPT
                              !.output = IF c.fault = "none"
                                         THEN DMul(DAdd(res.voltage,
                                                        c.junctionPotential),
                                                   c.outputFactor)
                                         ELSE @,
                              !.current_time = @ + c.clockStep]
                /\ ctrace' = IF res.sampled /\ u = "written"
                             THEN Append(ctrace,
                                         [trialIdx |-> c.trialIdx,
                                          segmentIdx |-> c.segmentIdx,
                                          sweepIdx |-> c.sweepIdx,
                                          stepIdx |-> res.stepIdx,
                                          time_elapsed_ms |->
                                            TimeElapsedMs(c, current_time),
                                          voltage |-> res.voltage,
                                          token |-> res.token])
                             ELSE ctrace
        ELSE /\ comp' = [comp EXCEPT !.output = D(0),
                                     !.current_time = @ + comp.clockStep]
             /\ ctrace' = ctrace
  /\ UNCHANGED <<variant, protocol, period, numTrials, run, trace, fifo,
                 panel, dry, editor>>

----------------------------------------------------------------------------
(* The protocol editor: saving to and loading from the document, and the   *)
(* dry run behind the preview and the export.                              *)

InitEditor ==
  [pc |-> "edit", doc |-> <<>>, saved |-> <<>>, edits |-> 0, op |-> "none"]

\* ClampProtocolEditor::saveProtocol: protocol.toDoc() fills protocolDoc
SaveProtocol ==
  /\ variant = "editor"
  /\ editor.pc = "edit"
  /\ editor' = [editor EXCEPT !.pc = "saved", !.doc = toDoc(protocol),
                              !.saved = protocol]
  /\ UNCHANGED <<variant, protocol, period, numTrials, run, trace, comp,
                 ctrace, fifo, panel, dry>>

\* ClampProtocolEditor::loadProtocol: protocol.fromDoc(doc) on the document
\* that was saved
LoadProtocol ==
  /\ variant = "editor"
  /\ editor.pc = "saved"
  /\ dry.pc \in {"idle", "returned"}
  /\ LET res == fromDoc(editor.doc)
     IN /\ protocol' = res.segments
        /\ editor' = [editor EXCEPT !.pc = IF res.fault = "none"
                                           THEN "loaded" ELSE "threw"]
  /\ UNCHANGED <<variant, period, numTrials, run, trace, comp, ctrace, fifo,
                 panel, dry>>

\* the sequence t with x put in front of position i (0-based)
InsertAt(t, i, x) == SubSeq(t, 1, i) \o <<x>> \o SubSeq(t, i + 1, Len(t))

\* Protocol::addSegment
addSegment(p) == [segments |-> Append(p, DefaultSegment), fault |-> "none"]

\* Protocol::addStep: push_back on the stored segment
addStep(p, seg_id) ==
  IF seg_id >= Len(p)
  THEN [segments |-> p, fault |-> "none"]
  ELSE [segments |-> [p EXCEPT ![seg_id + 1].steps = Append(@, DefaultStep)],
        fault |-> "none"]

\* Protocol::insertStep: the guard evaluates segments.at(seg_id) unless
\* seg_id > segments.size()
insertStep(p, seg_id, step_id) ==
  IF seg_id > Len(p)
  THEN [segments |-> p, fault |-> "none"]
  ELSE IF seg_id = Len(p)
  THEN [segments |-> p, fault |-> "out_of_range"]
  ELSE IF step_id > Len(p[seg_id + 1].steps)
  THEN [segments |-> p, fault |-> "none"]
  ELSE [segments |-> [p EXCEPT ![seg_id + 1].steps =
                                   InsertAt(@, step_id, DefaultStep)],
        fault |-> "none"]

\* what erase(end()) on a vector of steps may do: fault in the memmove it
\* issues, or return
EraseEndOutcomes == {"segv", "none"}

\* Protocol::deleteStep: the same guard, then erase on a copy of the segment;
\* with step_id == steps.size() the erase is of the end iterator
deleteStep(p, seg_id, step_id, u) ==
  IF seg_id > Len(p)
  THEN [segments |-> p, fault |-> "none"]
  ELSE IF seg_id = Len(p)
  THEN [segments |-> p, fault |-> "out_of_range"]
  ELSE IF step_id > Len(p[seg_id + 1].steps)
  THEN [segments |-> p, fault |-> "none"]
  ELSE IF step_id = Len(p[seg_id + 1].steps)
  THEN [segments |-> p, fault |-> u]
  ELSE [segments |-> p, fault |-> "none"]

\* Protocol::setSweeps: segments.at(seg_id).numSweeps = sweeps
setSweeps(p, seg_id, sweeps) ==
  IF seg_id >= Len(p)
  THEN [segments |-> p, fault |-> "out_of_range"]
  ELSE [segments |-> [p EXCEPT ![seg_id + 1].numSweeps = sweeps],
        fault |-> "none"]

\* Protocol::modifySegment: segments.at(seg_id) = segment
modifySegment(p, seg_id, segment) ==
  IF seg_id >= Len(p)
  THEN [segments |-> p, fault |-> "out_of_range"]
  ELSE [segments |-> [p EXCEPT ![seg_id + 1] = segment], fault |-> "none"]

\* Protocol::deleteSegment(size_t seg_id): a negative argument converts to a
\* value beyond every size
deleteSegment(p, seg_id) ==
  IF seg_id < 0 \/ seg_id >= Len(p)
  THEN [segments |-> p, fault |-> "none"]
  ELSE [segments |-> SubSeq(p, 1, seg_id) \o SubSeq(p, seg_id + 2, Len(p)),
        fault |-> "none"]

\* Protocol::clear
clear(p) == [segments |-> <<>>, fault |-> "none"]

\* the indices and values the editor's slots pass to the container
SegIds == 0..(MaxSegments + 1)

StepIds == 0..(MaxSteps + 1)

\* the range of the sweep spin box (a QSpinBox starts at 0), cut short
SweepValues == 0..2

\* faulty variant: the editor edits the Protocol of the Panel as well, as it
\* would if it held a reference to it
EditPanelProtocol(res, op) ==
  /\ variant = "editor"
  /\ editor.pc = "edit"
  /\ dry.pc = "idle"
  /\ editor.edits < MaxEdits
  /\ Len(res.segments) <= MaxSegments + 1
  /\ \A i \in DOMAIN res.segments : Len(res.segments[i].steps) <= MaxSteps
  /\ protocol' = res.segments
  /\ panel' = [panel EXCEPT !.protocol = res.segments]
  /\ editor' = [editor EXCEPT !.edits = @ + 1, !.op = op,
                              !.pc = IF res.fault = "none" THEN @ ELSE "threw"]
  /\ UNCHANGED <<variant, period, numTrials, run, trace, comp, ctrace, fifo,
                 dry>>

\* one edit of the protocol open in the editor by the operation op; an
\* exception leaves the slot
Edit(res, op) ==
  /\ variant = "editor"
  /\ editor.pc = "edit"
  /\ dry.pc = "idle"
  /\ editor.edits < MaxEdits
  /\ Len(res.segments) <= MaxSegments + 1
  /\ \A i \in DOMAIN res.segments : Len(res.segments[i].steps) <= MaxSteps
  /\ protocol' = res.segments
  /\ editor' = [editor EXCEPT !.edits = @ + 1, !.op = op,
                              !.pc = IF res.fault = "none" THEN @ ELSE "threw"]
  /\ UNCHANGED <<variant, period, numTrials, run, trace, comp, ctrace, fifo,
                 panel, dry>>

\* ClampProtocolEditor::addSegment
AddSegment == Edit(addSegment(protocol), "addSegment")

\* ClampProtocolEditor::addStep, the call protocol.addStep(row)
AddStepCall(seg_id) == Edit(addStep(protocol, seg_id), "addStep")

AddStep == \E seg_id \in SegIds : AddStepCall(seg_id)

\* ClampProtocolEditor::insertStep, the call protocol.insertStep(row, column)
InsertStepCall(seg_id, step_id) ==
  Edit(insertStep(protocol, seg_id, step_id), "insertStep")

InsertStep == \E seg_id \in SegIds, step_id \in StepIds :
                 InsertStepCall(seg_id, step_id)

\* ClampProtocolEditor::deleteStep, the call protocol.deleteStep(row, stepNum)
DeleteStepCall(seg_id, step_id) ==
  \E u \in EraseEndOutcomes :
     Edit(deleteStep(protocol, seg_id, step_id, u), "deleteStep")

DeleteStep == \E seg_id \in SegIds, step_id \in StepIds :
                 DeleteStepCall(seg_id, step_id)

\* ClampProtocolEditor::updateSegmentSweeps(sweepNum)
UpdateSegmentSweepsCall(seg_id, sweeps) ==
  Edit(setSweeps(protocol, seg_id, sweeps), "setSweeps")

UpdateSegmentSweeps == \E seg_id \in SegIds, sweeps \in SweepValues :
                          UpdateSegmentSweepsCall(seg_id, sweeps)

\* ClampProtocolEditor::deleteSegment with row currentSegmentNumber selected
\* in the list and the question answered with Yes (without a selection, or
\* answered with No, the slot returns and changes nothing)
DeleteSegmentCall(currentSegmentNumber) ==
  Edit(IF numSegments(protocol) = 1
       THEN clear(protocol)
       ELSE deleteSegment(protocol, currentSegmentNumber - 1),
       "deleteSegment")

DeleteSegment ==
  \E currentSegmentNumber \in 0..(numSegments(protocol) - 1) :
     DeleteSegmentCall(currentSegmentNumber)

\* a call of Protocol::modifySegment with a segment of the editor's kind
ModifySegment ==
  \E seg_id \in SegIds,
     segment \in {SingleStepSegment, NegativeSegment, DefaultSegment} :
       Edit(modifySegment(protocol, seg_id, segment), "modifySegment")

\* the locals of Protocol::dryrun at its entry
InitDry ==
  [pc |-> "idle", segmentIdx |-> 0, sweepsIdx |-> 0, stepIdx |-> 0,
   time_elapsed_ms |-> 0, result |-> <<>>]

\* the switch (step.stepType) of dryrun; "default" returns the empty result
DryVoltage(step, sweepsIdx, elapsed) ==
  IF step.stepType \in {"STEP", "RAMP"}
  THEN Amplitude(step, sweepsIdx, elapsed)
  ELSE NaN

\* the call protocol.dryrun(period) of exportProtocol and previewProtocol
Dryrun ==
  /\ variant = "editor"
  /\ editor.pc \in {"edit", "saved", "loaded"}
  /\ dry.pc = "idle"
  /\ dry' = [InitDry EXCEPT !.pc = "loop"]
  /\ UNCHANGED <<variant, protocol, period, numTrials, run, trace, comp,
                 ctrace, fifo, panel, editor>>

\* one test of the innermost open loop of dryrun, with the loop body when the
\* step loop is entered; a push_back beyond the memory there is throws
DryrunLoop ==
  /\ variant = "editor"
  /\ dry.pc = "loop"
  /\ dry' =
       IF dry.segmentIdx >= numSegments(protocol)
       THEN [dry EXCEPT !.pc = "returned"]
       ELSE IF dry.sweepsIdx >= numSweeps(protocol, dry.segmentIdx)
       THEN [dry EXCEPT !.segmentIdx = @ + 1]
       ELSE IF dry.stepIdx >= numSteps(protocol, dry.segmentIdx)
       THEN [dry EXCEPT !.sweepsIdx = @ + 1]
       ELSE
         LET step == getStep(protocol, dry.segmentIdx, dry.stepIdx)
         IN IF step.stepType \notin {"STEP", "RAMP"}
            THEN [dry EXCEPT !.pc = "returned", !.result = <<>>]
            ELSE IF Len(dry.result) >= MaxSamples
            THEN [dry EXCEPT !.pc = "bad_alloc"]
            ELSE [dry EXCEPT
                    !.result = Append(@, DryVoltage(step, dry.sweepsIdx,
                                                    dry.time_elapsed_ms)),
                    !.stepIdx = @ + StepAdvance(step, dry.segmentIdx,
                                                dry.time_elapsed_ms)]
  /\ UNCHANGED <<variant, protocol, period, numTrials, run, trace, comp,
                 ctrace, fifo, panel, editor>>

----------------------------------------------------------------------------

Init ==
  /\ variant \in {"legacy", "current", "editor"}
  /\ protocol \in CASE variant = "legacy" -> LegacyProtocols
                    [] variant = "current" -> PanelProtocols
                    [] variant = "editor" -> EditorProtocols
  /\ period \in IF variant = "current" THEN {1} ELSE Periods
  /\ numTrials \in 1..MaxTrials
  /\ IF variant = "legacy"
     THEN \E i \in IntervalTimes, plotting \in BOOLEAN :
             run = [InitRun EXCEPT !.intervalTime = i, !.plotting = plotting]
     ELSE run = InitRun
  /\ trace = <<>>
  /\ IF variant = "current"
     THEN \E step \in {0, 1}, jf \in JunctionAndFactor,
             plotting \in BOOLEAN :
             /\ plotting => (step = 1 /\ jf = <<D(0), D(1)>>)
             /\ comp = [InitComp EXCEPT !.clockStep = step,
                                        !.junctionPotential = jf[1],
                                        !.outputFactor = jf[2],
                                        !.plotting = plotting]
     ELSE comp = InitComp
  /\ ctrace = <<>>
  /\ fifo = <<>>
  /\ panel = InitPanel
  /\ dry = InitDry
  /\ editor = InitEditor

Next ==
  \/ LegacyToggleProtocol
  \/ SegmentLength
  \/ Exec
  \/ ToggleProtocol
  \/ LoadProtocolFile
  \/ LoadSegment
  \/ ObserveProtocolState
  \/ Execute
  \/ AddSegment
  \/ AddStep
  \/ InsertStep
  \/ DeleteStep
  \/ UpdateSegmentSweeps
  \/ DeleteSegment
  \/ ModifySegment
  \/ SaveProtocol
  \/ LoadProtocol
  \/ Dryrun
  \/ DryrunLoop

Spec == Init /\ [][Next]_vars

\* the current build as src/widget.cpp has it: Component::execute is the only
\* code of the real-time side and it never reads the protocol_state fifo
NextAsCoded ==
  \/ ToggleProtocol
  \/ LoadProtocolFile
  \/ LoadSegment
  \/ Execute

\* the host calls Component::execute on every period
SpecAsCoded == Init /\ [][NextAsCoded]_vars /\ WF_vars(Execute)

----------------------------------------------------------------------------
(* Helpers of the properties.                                              *)

Rep(x, n) == [i \in 1..n |-> x]

RECURSIVE Flatten(_)
Flatten(ss) == IF ss = <<>> THEN <<>> ELSE Head(ss) \o Flatten(Tail(ss))

IsPrefix(a, b) == Len(a) <= Len(b) /\ a = SubSeq(b, 1, Len(a))

Triple(e) == <<e.segmentIdx, e.sweepIdx, e.stepIdx>>

Triples(t) == [i \in DOMAIN t |-> Triple(t[i])]

Voltages(t) == [i \in DOMAIN t |-> t[i].voltage]

\* duration of a step at a sweep, in whole sample periods
FloorTicks(step, sweep, per) ==
  (step.stepDuration + step.deltaStepDuration * sweep) \div per

\* segment-major, sweep-next, step-minor: every (segment, sweep, step) once,
\* repeated for each of its ticks
ExpectedTriples(p, per) ==
  Flatten([g \in 1..Len(p) |->
    Flatten([w \in 1..p[g].numSweeps |->
      Flatten([j \in 1..Len(p[g].steps) |->
        Rep(<<g - 1, w - 1, j - 1>>,
            FloorTicks(p[g].steps[j], w - 1, per))])])])

\* every segment has a step and a sweep, every step lasts a period or more
WellFormed(p, per) ==
  /\ Len(p) >= 1
  /\ \A g \in 1..Len(p) :
       /\ Len(p[g].steps) >= 1
       /\ p[g].numSweeps >= 1
       /\ \A w \in 0..(p[g].numSweeps - 1), j \in 1..Len(p[g].steps) :
            FloorTicks(p[g].steps[j], w, per) >= 1

\* the trial of the legacy runner has run to its end
TrialEnded ==
  /\ run.protocolMode \in {"END", "WAIT"} /\ run.fault = "none"
  /\ trace # <<>>

\* index of the first entry of the block of equal triples that holds entry i
RECURSIVE BlockStart(_, _)
BlockStart(t, i) ==
  IF i > 1 /\ Triple(t[i - 1]) = Triple(t[i]) THEN BlockStart(t, i - 1)
  ELSE i

\* entry i is the last tick of its step
BlockEnds(t, i) ==
  IF i < Len(t) THEN Triple(t[i + 1]) # Triple(t[i])
  ELSE run.protocolMode # "EXECUTE"

----------------------------------------------------------------------------
(* Properties.                                                             *)

\* C1: in one trial of Component::exec on a protocol whose segments all have
\* a step and a sweep and whose steps all last a period or more, the
\* (segment, sweep, step) triples of the EXECUTE ticks run through the
\* segments in order, the sweeps of each, the steps of each sweep, each
\* triple once, and the trial ends after the sum of floor(duration/period)
\* ticks.  A trial cut short by a fault has run through a prefix of them.
C1_VisitOrder ==
  (variant = "legacy" /\ WellFormed(protocol, period)) =>
     /\ IsPrefix(Triples(trace), ExpectedTriples(protocol, period))
     /\ TrialEnded =>
          /\ Triples(trace) = ExpectedTriples(protocol, period)
          /\ Len(trace) = Len(ExpectedTriples(protocol, period))

C1_Witness ==
  /\ variant = "legacy" /\ WellFormed(protocol, period) /\ TrialEnded
  /\ Len(protocol) = 2 /\ protocol[1].numSweeps = 2
  /\ Len(protocol[1].steps) = 2
  /\ Len(trace) > 4

\* C3: a step that lasts exactly N sample periods (N >= 1) at its sweep has
\* stepEndTime = N - 1 and is in EXECUTE for exactly N consecutive ticks.
C3_ExactlyNTicks ==
  variant = "legacy" =>
    \A i \in DOMAIN trace :
      LET e == trace[i]
          step == getStep(protocol, e.segmentIdx, e.stepIdx)
          dur == step.stepDuration + step.deltaStepDuration * e.sweepIdx
      IN (BlockEnds(trace, i) /\ dur >= period /\ dur % period = 0) =>
           /\ e.stepEndTime = (dur \div period) - 1
           /\ i - BlockStart(trace, i) + 1 = dur \div period

C3_Witness ==
  /\ variant = "legacy" /\ period = 2
  /\ \E i \in DOMAIN trace :
       /\ BlockEnds(trace, i)
       /\ i - BlockStart(trace, i) + 1 = 2
       /\ getStep(protocol, trace[i].segmentIdx, trace[i].stepIdx).stepDuration
            = 4

\* C4 as stated: the scenario protocol at period 1 gives 9 ticks of 5.0, then
\* 9 ticks of 6.0, then END.
C4_NineTicks ==
  (variant = "legacy" /\ protocol = ScenarioProtocol /\ period = 1
     /\ TrialEnded) =>
    Voltages(trace) = Rep(D(5), 9) \o Rep(D(6), 9)

\* C4 as amended: the scenario protocol at period 1 gives 10 ticks of 5.0,
\* then 10 ticks of 6.0, then END.
C4_TenTicks ==
  (variant = "legacy" /\ protocol = ScenarioProtocol /\ period = 1) =>
    /\ IsPrefix(Voltages(trace), Rep(D(5), 10) \o Rep(D(6), 10))
    /\ TrialEnded => Voltages(trace) = Rep(D(5), 10) \o Rep(D(6), 10)

C4_Witness ==
  /\ variant = "legacy" /\ protocol = ScenarioProtocol /\ period = 1
  /\ TrialEnded /\ Len(trace) = 20

\* C5: the samples Protocol::run(period) returns are, one for one, the
\* voltages Component::exec computes on the EXECUTE ticks of a trial, and run
\* returns after exactly as many samples as the trial has ticks.
C5_RunMatchesExec ==
  variant = "legacy" =>
    LET u == IF run.ub = "none" THEN "trap" ELSE run.ub
        s == RunFor(RunLocals, protocol, period, u, Len(trace))
        n == RunFor(s, protocol, period, u, 1)
    IN /\ s.outputVector = Voltages(trace)
       /\ TrialEnded => s.protocolMode = "END"
       /\ run.fault # "none" => n.fault = run.fault

C5_Witness ==
  /\ variant = "legacy" /\ TrialEnded /\ Len(trace) >= 6
  /\ \E i \in DOMAIN trace :
       getStep(protocol, trace[i].segmentIdx, trace[i].stepIdx).stepType
         = "RAMP" /\ trace[i].voltage # D(0)
  /\ \E i \in DOMAIN trace :
       getStep(protocol, trace[i].segmentIdx, trace[i].stepIdx).stepType
         = "CURVE"

\* C7 as stated: a step whose stepEndTime is computed <= 0 is never executed.
C7_NoExecuteWhenDegenerate ==
  variant = "legacy" =>
    \A i \in DOMAIN trace : trace[i].stepEndTime > 0

----------------------------------------------------------------------------
(* Properties of the current build.                                        *)

\* the protocol the component runs on is the one it was handed
Unmutated == comp.protocol # "null" /\ protocol = comp.handed

\* every segment has a step: the runner reads no index out of range on it
Runnable(p) == p # <<>> /\ \A i \in DOMAIN p : p[i].steps # <<>>

\* before sample j of the trace, sweep w of segment seg was output in the
\* same trial
OutputBefore(j, seg, w) ==
  \E i \in 1..(j - 1) :
     /\ ctrace[i].trialIdx = ctrace[j].trialIdx
     /\ ctrace[i].segmentIdx = seg
     /\ ctrace[i].sweepIdx = w

\* C2: on a protocol with a step in every segment the current runner outputs
\* all sweeps of segment i before any sample of segment i+1: when a sample of
\* a segment after the first is output, every sweep of the segment before it
\* has been output in that trial
C2_SegmentMajorOrder ==
  (variant = "current" /\ Unmutated /\ Runnable(protocol)) =>
     \A j \in DOMAIN ctrace :
        ctrace[j].segmentIdx > 0 =>
          \A w \in 0..(numSweeps(protocol, ctrace[j].segmentIdx - 1) - 1) :
             OutputBefore(j, ctrace[j].segmentIdx - 1, w)

\* some segment has steps, all of them of positive duration
HasPositiveSegment(p) ==
  \E i \in DOMAIN p :
     /\ p[i].steps # <<>>
     /\ \A k \in DOMAIN p[i].steps : p[i].steps[k].stepDuration > 0

\* C6: on a protocol with a segment whose steps have positive duration,
\* dryrun comes to its end after finitely many iterations: its result never
\* grows until the memory is used up
C6_DryrunTerminates ==
  (variant = "editor" /\ HasPositiveSegment(protocol)) => dry.pc # "bad_alloc"

\* the protocol has a segment and its first segment has a step
HasFirstStep(p) == numSegments(p) >= 1 /\ numSteps(p, 0) >= 1

\* a protocol_state that starts a run is put on the fifo in this step
PostsRun ==
  /\ Len(fifo') > Len(fifo)
  /\ fifo'[Len(fifo')].running

\* C8: toggleProtocol posts a protocol_state with running = true only if the
\* protocol has a segment and its first segment has a step
C8_RunNeedsFirstStep == [][PostsRun => HasFirstStep(protocol)]_vars

\* C9: while a run is in progress the protocol handed to the component is
\* not mutated by loadProtocolFile, so the runner never reads a segment or
\* step index out of range on a protocol that was in range when handed over
C9_LoadNeverBreaksRun ==
  (variant = "current" /\ Runnable(comp.handed)
     /\ comp.fault = "out_of_range") => protocol = comp.handed

\* same amplifier mode, step type and the same six parameters
SameStep(a, b) ==
  /\ a.ampMode = b.ampMode
  /\ a.stepType = b.stepType
  /\ a.stepDuration = b.stepDuration
  /\ a.deltaStepDuration = b.deltaStepDuration
  /\ a.holdingLevel1 = b.holdingLevel1
  /\ a.deltaHoldingLevel1 = b.deltaHoldingLevel1
  /\ a.holdingLevel2 = b.holdingLevel2
  /\ a.deltaHoldingLevel2 = b.deltaHoldingLevel2

\* same segments, sweeps per segment and steps per segment
SameProtocol(p, q) ==
  /\ Len(p) = Len(q)
  /\ \A i \in DOMAIN p :
       /\ i \in DOMAIN q
       /\ p[i].numSweeps = q[i].numSweeps
       /\ Len(p[i].steps) = Len(q[i].steps)
       /\ \A k \in DOMAIN p[i].steps :
            k \in DOMAIN q[i].steps /\ SameStep(p[i].steps[k], q[i].steps[k])

\* C10: toDoc followed by fromDoc on the document produced gives back a
\* protocol with the same segments, sweeps, steps, step types and parameters
C10_DocRoundTrip ==
  (variant = "editor" /\ editor.pc \in {"loaded", "threw"})
     => SameProtocol(protocol, editor.saved)

\* on a protocol that is not mutated and has a step in every segment the
\* runner reads no index out of range
RunnableNeverFaults ==
  (variant = "current" /\ Unmutated /\ Runnable(protocol))
     => comp.fault = "none"

\* a protocol without steps survives the round trip through the document
StepFreeRoundTrip ==
  (variant = "editor" /\ editor.pc = "loaded")
     => SameProtocol(protocol, editor.saved)

----------------------------------------------------------------------------
(* Properties of the container's edit operations.                          *)

\* the sequence t without its element at position i (0-based)
RemoveAt(t, i) == SubSeq(t, 1, i) \o SubSeq(t, i + 2, Len(t))

\* seg_id and step_id name a stored step of p
StepInRange(p, seg_id, step_id) ==
  seg_id < numSegments(p) /\ step_id < numSteps(p, seg_id)

\* C11: deleteStep(segId, stepId) on a stored step removes exactly that step:
\* the segment is one step shorter, the other steps keep their order and the
\* other segments are unchanged
C11_DeleteStepRemoves ==
  [][\A seg_id \in SegIds, step_id \in StepIds :
       (StepInRange(protocol, seg_id, step_id)
          /\ DeleteStepCall(seg_id, step_id))
       => protocol' = [protocol EXCEPT ![seg_id + 1].steps =
                                         RemoveAt(@, step_id)]]_vars

\* the call returned normally and left the protocol as it was
NoOp == protocol' = protocol /\ editor'.pc = "edit"

\* C12: insertStep and deleteStep with segId >= numSegments(), and deleteStep
\* with stepId >= segmentSize(segId), return normally and leave the protocol
\* unchanged
C12_OutOfRangeIsNoOp ==
  [][\A seg_id \in SegIds, step_id \in StepIds :
       /\ (seg_id >= numSegments(protocol) /\ InsertStepCall(seg_id, step_id))
            => NoOp
       /\ (~StepInRange(protocol, seg_id, step_id)
             /\ DeleteStepCall(seg_id, step_id))
            => NoOp]_vars

\* C13: every segment of the protocol in the editor has numSweeps >= 1
C13_SweepsPositive ==
  variant = "editor" => \A i \in DOMAIN protocol : protocol[i].numSweeps >= 1

\* C14: segmentLength(segId, period, withSweeps) is trunc(S / period) without
\* sweeps and trunc(S * numSweeps / period) with sweeps, S being the sum of
\* stepDuration over the steps of the segment
C14_SegmentLength ==
  (variant = "legacy" /\ run.lengthCall.seg_id >= 0) =>
     LET c == run.lengthCall
         S == SumDurations(protocol[c.seg_id + 1].steps)
         n == protocol[c.seg_id + 1].numSweeps
     IN c.result = IF c.withSweeps THEN TruncDiv(S * n, period)
                                   ELSE TruncDiv(S, period)

\* with sweeps the length is trunc(S * numSweeps / period)
SegmentLengthWithSweeps ==
  (variant = "legacy" /\ run.lengthCall.seg_id >= 0
     /\ run.lengthCall.withSweeps) =>
     LET c == run.lengthCall
     IN c.result = TruncDiv(SumDurations(protocol[c.seg_id + 1].steps)
                              * protocol[c.seg_id + 1].numSweeps, period)

----------------------------------------------------------------------------
(* Trials of the legacy runner.                                            *)

\* the runner is inside a traversal of the protocol
Traversing == run.protocolMode \in {"SEGMENT", "STEP", "EXECUTE"}

\* the run is over: the last traversal reached END and the runner went idle
RunOver ==
  /\ run.executeMode = "IDLE" /\ run.protocolMode = "END"
  /\ run.fault = "none" /\ trace # <<>>

\* C15: with numTrials = K >= 1 the legacy runner makes exactly K traversals:
\* the trial index grows only by one, only on the tick after a traversal
\* reached END with trials left, and that tick goes through WAIT; the runner
\* goes idle only after the traversal of trial K - 1 reached END, with output
\* 0, and once idle it does not enter SEGMENT, STEP or EXECUTE again
C15_TrialsAndWait ==
  [][variant = "legacy" =>
       /\ (run.executeMode = "PROTOCOL" /\ run.protocolMode = "END")
            => IF run.trialIdx < numTrials - 1
               THEN /\ run'.trialIdx = run.trialIdx + 1
                    /\ run'.executeMode = "PROTOCOL"
                    /\ \/ run'.protocolMode = "WAIT"
                       \/ run'.protocolMode = "SEGMENT" /\ trace' = <<>>
               ELSE /\ run'.executeMode = "IDLE"
                    /\ run'.output = D(0)
                    /\ run'.trialIdx = numTrials - 1
                    /\ ~Traversing'
       /\ (run.executeMode = "PROTOCOL" /\ run.protocolMode # "END")
            => run'.trialIdx = run.trialIdx /\ run'.executeMode = "PROTOCOL"
       /\ (run.protocolMode = "END" /\ WellFormed(protocol, period)
             /\ trace # <<>>)
            => Triples(trace) = ExpectedTriples(protocol, period)
       /\ RunOver => (RunOver' /\ ~Traversing')]_vars

\* a run of two trials is over
C15_Witness ==
  /\ variant = "legacy" /\ numTrials = 2 /\ RunOver
  /\ run.trialIdx = 1
  /\ WellFormed(protocol, period)

----------------------------------------------------------------------------
(* The inter-trial wait of the legacy runner.                              *)

\* this tick of a run went through the WAIT stage and left it
LeavesWait ==
  /\ variant = "legacy" /\ run.executeMode = "PROTOCOL"
  /\ run.protocolMode \in {"END", "WAIT"}
  /\ run'.protocolMode # "WAIT" /\ run'.executeMode = "PROTOCOL"

\* C17: the legacy runner leaves WAIT only on a tick at which the time since
\* the recorded end of the trial exceeds intervalTime; on that tick it sets
\* time = 0 and segmentIdx = 0 and moves to SEGMENT, and sweepIdx and stepIdx
\* are 0 as well, so the next trial starts at cursors (0,0,0)
C17_WaitLeavesAtZero ==
  [][/\ LeavesWait =>
          /\ run.now - run'.protocolEndTime > run.intervalTime
          /\ run'.protocolMode = "SEGMENT"
          /\ run'.time = 0
          /\ run'.segmentIdx = 0 /\ run'.sweepIdx = 0 /\ run'.stepIdx = 0
     /\ (variant = "legacy" /\ run.protocolMode = "WAIT"
           /\ run'.protocolMode = "WAIT")
          => ~(run.now - run.protocolEndTime > run.intervalTime)]_vars

\* the second trial is about to start after a wait of more than one tick
C17_Witness ==
  /\ variant = "legacy" /\ run.executeMode = "PROTOCOL"
  /\ run.protocolMode = "SEGMENT" /\ run.trialIdx = 1 /\ trace = <<>>
  /\ run.intervalTime = 1
  /\ run.now - run.protocolEndTime > period
  /\ <<run.segmentIdx, run.sweepIdx, run.stepIdx>> = <<0, 0, 0>>

----------------------------------------------------------------------------
(* The end of a run and the trial boundary of the current runner.          *)

\* this tick of Component::execute found trialIdx >= numTrials after the run
\* had produced samples
EndOfRunTick ==
  /\ variant = "current" /\ fifo' = fifo /\ ctrace # <<>>
  /\ comp.state = "EXEC" /\ comp'.state = "PAUSE"
  /\ comp'.fault = "none" /\ comp'.trialIdx >= numTrials

\* C18: on the tick at which getProtocolAmplitude finds trialIdx >= numTrials
\* the value written to the output is exactly 0 whatever junctionPotential
\* and outputFactor are, the state becomes PAUSE, and every later tick
\* writes 0
C18_EndOfRunWritesZero ==
  [][/\ EndOfRunTick => comp'.output = D(0)
     /\ (variant = "current" /\ comp.state = "PAUSE" /\ fifo' = fifo
           /\ comp' # comp)
          => comp'.output = D(0)]_vars

\* this tick of Component::execute ended a trial with more trials to come
TrialBoundaryTick ==
  /\ variant = "current" /\ fifo' = fifo
  /\ Unmutated /\ Runnable(protocol)
  /\ comp.state = "EXEC" /\ comp'.fault = "none"
  /\ comp'.trialIdx # comp.trialIdx
  /\ comp'.trialIdx < numTrials

\* C19: when getProtocolAmplitude ends a trial and more trials remain,
\* trialIdx grows by exactly one and segmentIdx, sweepIdx and stepIdx are all
\* reset to 0: the sample of that tick is the first sample of the protocol
C19_TrialBoundaryResets ==
  [][TrialBoundaryTick =>
       /\ comp'.trialIdx = comp.trialIdx + 1
       /\ Len(ctrace') = Len(ctrace) + 1
       /\ LET e == ctrace'[Len(ctrace')]
          IN <<e.trialIdx, e.segmentIdx, e.sweepIdx, e.stepIdx>>
               = <<comp'.trialIdx, 0, 0, 0>>]_vars

----------------------------------------------------------------------------
(* The RAMP step of the current code.                                      *)

\* the line through (0, y1) and (T, y2) at time t
RampLine(step, sweep, t) ==
  LET y1 == step.holdingLevel1 + step.deltaHoldingLevel1 * sweep
      y2 == step.holdingLevel2 + step.deltaHoldingLevel2 * sweep
      T == step.stepDuration + step.deltaStepDuration * sweep
  IN DAdd(D(y1), DMul(DDiv(D(y2 - y1), D(T)), D(t)))

\* C20: a sample of a RAMP step taken at elapsed time t within the step's
\* duration T is y1 + (y2 - y1) / T * t, which is y1 at t = 0 and y2 at t = T
C20_RampLine ==
  (variant = "current" /\ Unmutated) =>
     \A j \in DOMAIN ctrace :
        LET e == ctrace[j]
        IN getStepInRange(protocol, e.segmentIdx, e.stepIdx) =>
             LET step == getStep(protocol, e.segmentIdx, e.stepIdx)
                 T == step.stepDuration + step.deltaStepDuration * e.sweepIdx
             IN (step.stepType = "RAMP" /\ e.time_elapsed_ms >= 0
                   /\ e.time_elapsed_ms <= T)
                  => e.voltage = RampLine(step, e.sweepIdx, e.time_elapsed_ms)

----------------------------------------------------------------------------
(* The hand-off of a run from the Panel to the Component.                  *)

\* toggleProtocol has posted the start of a run of a protocol with a segment
RunPosted ==
  /\ variant = "current" /\ fifo # <<>>
  /\ Head(fifo).running /\ numSegments(protocol) >= 1

\* the Component has taken the request: it points to the Panel's protocol
\* with the cursors at (0,0,0,0) and is in EXEC
RunObserved ==
  /\ comp.protocol = "panel" /\ comp.state = "EXEC"
  /\ <<comp.segmentIdx, comp.sweepIdx, comp.stepIdx, comp.trialIdx>>
       = <<0, 0, 0, 0>>

\* C16: after toggleProtocol has posted a run of a protocol with at least one
\* segment, the Component eventually observes the request: its protocol
\* pointer is set to that Protocol and its cursors are (0,0,0,0)
C16_RunStartObserved == RunPosted ~> RunObserved

\* as coded the Component never gets a protocol
NeverHandedOver == comp.protocol = "null" /\ comp.state = "PAUSE"

----------------------------------------------------------------------------
(* The end of a step and the step-relative time of the current runner.     *)

\* this tick of Component::execute produced a sample from a step of the
\* protocol it was handed
SampleTick ==
  /\ variant = "current" /\ Unmutated /\ Runnable(protocol)
  /\ fifo' = fifo
  /\ comp.state = "EXEC" /\ comp'.fault = "none"
  /\ Len(ctrace') = Len(ctrace) + 1

\* the step that produced the last sample of the trace t
StepOf(t) == getStep(protocol, t[Len(t)].segmentIdx, t[Len(t)].stepIdx)

\* C21: the step index advances exactly when the time elapsed in the step
\* exceeds stepDuration + deltaStepDuration * sweepIdx, whatever the segment
\* index is
C21_StepEndBySweep ==
  [][SampleTick =>
       LET e == ctrace'[Len(ctrace')]
           step == StepOf(ctrace')
       IN (comp'.stepIdx = e.stepIdx + 1)
            <=> (e.time_elapsed_ms
                   > step.stepDuration + step.deltaStepDuration * e.sweepIdx)
    ]_vars

\* this tick produced the first sample of the next step of the same segment
\* and sweep
NextStepTick ==
  /\ SampleTick /\ ctrace # <<>>
  /\ LET e == ctrace'[Len(ctrace')]
         d == ctrace[Len(ctrace)]
     IN /\ <<e.trialIdx, e.segmentIdx, e.sweepIdx>>
             = <<d.trialIdx, d.segmentIdx, d.sweepIdx>>
        /\ e.stepIdx = d.stepIdx + 1

\* C22: the elapsed time of a step is measured from the start of that step:
\* reference_time is set to the current time whenever stepIdx advances to a
\* new step, so the first sample of the new step is taken no later than one
\* tick after reference_time
C22_StepRelativeTime ==
  [][NextStepTick =>
       /\ comp'.reference_time >= comp.current_time - comp.clockStep
       /\ ctrace'[Len(ctrace')].time_elapsed_ms
            < ctrace[Len(ctrace)].time_elapsed_ms]_vars

----------------------------------------------------------------------------
(* Plot tokens.                                                            *)

\* this tick of the legacy runner was the last EXECUTE tick of a step while
\* plotting was on
StepCompletedTick ==
  /\ variant = "legacy" /\ run.plotting
  /\ Len(trace') = Len(trace) + 1
  /\ run'.fault = "none" /\ run'.protocolMode # "EXECUTE"

\* the number of EXECUTE ticks in t of the step that produced its last entry
TicksOfLastStep(t) ==
  Cardinality({i \in DOMAIN t :
                 <<t[i].segmentIdx, t[i].sweepIdx, t[i].stepIdx>>
                   = <<t[Len(t)].segmentIdx, t[Len(t)].sweepIdx,
                       t[Len(t)].stepIdx>>})

\* C23: while plotting is on, for every completed step the legacy runner
\* writes a token with the trial and sweep of that step and with points equal
\* to the number of EXECUTE ticks of the step, and the accumulation buffer is
\* empty when the next step begins
C23_TokenPerStep ==
  [][StepCompletedTick =>
       /\ run'.token.trial = run.trialIdx
       /\ run'.token.sweep = trace'[Len(trace')].sweepIdx
       /\ run'.token.points = TicksOfLastStep(trace')
       /\ run'.data = 0]_vars

\* the token of a completed step carries the trial and sweep of that step
TokenTrialAndSweep ==
  [][StepCompletedTick =>
       /\ run'.token.trial = run.trialIdx
       /\ run'.token.sweep = trace'[Len(trace')].sweepIdx]_vars

\* C24: while plotting is on, the token of a tick of getProtocolAmplitude has
\* the segment, sweep and step of the step that produced the tick's sample
\* (taken before the step index is advanced), stepStart = reference_time and
\* time = current_time
C24_TokenOfSample ==
  [][(SampleTick /\ comp.plotting) =>
       LET e == ctrace'[Len(ctrace')]
       IN /\ <<e.token.segment, e.token.sweep, e.token.step>>
               = <<e.segmentIdx, e.sweepIdx, e.stepIdx>>
          /\ e.token.stepStart = comp'.reference_time
          /\ e.token.time = comp.current_time]_vars

\* the token carries reference_time and current_time
TokenTimes ==
  [][(SampleTick /\ comp.plotting) =>
       LET e == ctrace'[Len(ctrace')]
       IN /\ e.token.stepStart = comp'.reference_time
          /\ e.token.time = comp.current_time]_vars

----------------------------------------------------------------------------
(* The editor's slots.                                                     *)

\* C25: deleteSegment, once confirmed, removes exactly the segment selected
\* in the list: row r removes segment r of the protocol, and the number of
\* segments decreases by one
C25_DeleteSelectedSegment ==
  [][\A r \in 0..MaxSegments :
       (r < numSegments(protocol) /\ DeleteSegmentCall(r))
         => /\ protocol' = RemoveAt(protocol, r)
            /\ numSegments(protocol') = numSegments(protocol) - 1]_vars

----------------------------------------------------------------------------
(* Cursor bounds, sweep exhaustion and pulse trains of the legacy runner.  *)

\* every segment has at least one step and one sweep
HasStepsAndSweeps(p) ==
  /\ p # <<>>
  /\ \A i \in DOMAIN p : p[i].steps # <<>> /\ p[i].numSweeps >= 1

\* C26: on a protocol in which every segment has a step and numSweeps >= 1,
\* whenever the legacy runner is about to read the protocol in its SEGMENT or
\* STEP state, segmentIdx, stepIdx and sweepIdx are within the segment count,
\* the step count and the sweep count, in every trial; no read is out of range
C26_CursorBounds ==
  (variant = "legacy" /\ HasStepsAndSweeps(protocol)) =>
     /\ run.fault # "out_of_range"
     /\ (run.executeMode = "PROTOCOL" /\ run.fault = "none"
           /\ run.protocolMode \in {"SEGMENT", "STEP"})
        => /\ 0 <= run.segmentIdx /\ run.segmentIdx < numSegments(protocol)
           /\ 0 <= run.stepIdx
           /\ run.stepIdx < numSteps(protocol, run.segmentIdx)
           /\ 0 <= run.sweepIdx
           /\ run.sweepIdx < numSweeps(protocol, run.segmentIdx)

\* in the second trial the runner is about to read the second step of the
\* second sweep of a segment
C26_Witness ==
  /\ variant = "legacy" /\ HasStepsAndSweeps(protocol)
  /\ run.executeMode = "PROTOCOL" /\ run.fault = "none"
  /\ run.protocolMode = "STEP" /\ run.trialIdx = 1
  /\ run.stepIdx = 1 /\ run.sweepIdx = 1

\* the legacy runner is at or inside a segment whose numSweeps is 0
InZeroSweepSegment ==
  /\ variant = "legacy"
  /\ run.executeMode = "PROTOCOL" /\ run.fault = "none"
  /\ run.protocolMode \in {"SEGMENT", "STEP", "EXECUTE"}
  /\ run.segmentIdx < numSegments(protocol)
  /\ numSweeps(protocol, run.segmentIdx) = 0

\* C27: sweep exhaustion is tested with equality after the increment, so a
\* segment whose numSweeps is 0 is never left by Component::exec or by
\* Protocol::run: sweepIdx grows past numSweeps, the steps repeat and
\* protocolMode does not become END
C27_ZeroSweepsNeverLeft ==
  [][InZeroSweepSegment =>
       /\ InZeroSweepSegment'
       /\ run'.segmentIdx = run.segmentIdx
       /\ run'.sweepIdx >= run.sweepIdx
       /\ run'.trialIdx = run.trialIdx
       /\ LET u == IF run'.ub = "none" THEN "trap" ELSE run'.ub
              s == RunFor(RunLocals, protocol, period, u, Len(trace'))
          IN /\ s.protocolMode # "END" /\ s.fault = "none"
             /\ <<s.segmentIdx, s.sweepIdx, s.stepIdx>>
                  = <<run'.segmentIdx, run'.sweepIdx, run'.stepIdx>>]_vars

\* the sweep index has passed numSweeps = 0 and the step is repeated
C27_Witness ==
  /\ InZeroSweepSegment
  /\ run.sweepIdx >= 2
  /\ \E i, j \in DOMAIN trace :
       /\ i < j
       /\ <<trace[i].segmentIdx, trace[i].stepIdx>>
            = <<trace[j].segmentIdx, trace[j].stepIdx>>
       /\ trace[i].sweepIdx < trace[j].sweepIdx

\* an EXECUTE tick of a TRAIN step has evaluated stepTime % pulseRate with
\* pulseRate = 0: the tick trapped, or went on with the other outcome
RemainderByZero == run.fault = "SIGFPE" \/ run.ub # "none"

\* C28: whenever EXECUTE evaluates stepTime % pulseRate, the integer pulseRate
\* the STEP state computed as trunc(step.pulseRate / (period * 1000)) is not
\* zero, for every TRAIN step, those with pulseRate = 0 or below period * 1000
\* included
C28_PulseRateNonZero ==
  variant = "legacy" =>
     /\ ~RemainderByZero
     /\ (run.executeMode = "PROTOCOL" /\ run.protocolMode = "EXECUTE"
           /\ run.stepType = "TRAIN")
        => run.pulseRate # 0

----------------------------------------------------------------------------
(* The frame of the inter-trial wait.                                      *)

\* this tick of the legacy runner began and ended in WAIT
WaitingTick ==
  /\ variant = "legacy" /\ run.executeMode = "PROTOCOL"
  /\ run.protocolMode = "WAIT" /\ run'.protocolMode = "WAIT"
  /\ run' # run

\* C29: a tick spent in WAIT before the interval has elapsed changes none of
\* segmentIdx, sweepIdx, stepIdx, trialIdx, stepTime and time and does not
\* write the output, which keeps the value of the last EXECUTE tick of the
\* trial before
C29_WaitFrame ==
  [][WaitingTick =>
       /\ <<run'.segmentIdx, run'.sweepIdx, run'.stepIdx, run'.trialIdx>>
            = <<run.segmentIdx, run.sweepIdx, run.stepIdx, run.trialIdx>>
       /\ run'.stepTime = run.stepTime /\ run'.time = run.time
       /\ run'.output = run.output
       /\ trace # <<>> /\ trace' = trace
       /\ run'.output = OutputOf(trace[Len(trace)].voltage)]_vars

\* the runner has spent a tick in WAIT and its output is not zero
C29_Witness ==
  /\ variant = "legacy" /\ run.executeMode = "PROTOCOL"
  /\ run.protocolMode = "WAIT"
  /\ run.now - run.protocolEndTime > period
  /\ run.output # D(0)

----------------------------------------------------------------------------
\* Panel::protocol, the instance whose address goes to the runner
PanelProtocol == IF variant = "editor" THEN panel.protocol ELSE protocol

\* a step of one of the slots of ClampProtocolEditor
EditorSlotStep == variant = "editor" /\ editor' # editor

\* a step of Panel::loadProtocolFile
PanelLoadStep ==
  \/ variant = "current"
     /\ (panel.load.pc = "segments" \/ panel'.load.pc = "segments")
  \/ variant = "editor" /\ editor' = editor /\ protocol' = protocol

\* C30: a slot of the editor changes the editor's own Protocol member only:
\* it leaves the Panel's Protocol and everything of the runner as they were,
\* and the Panel's Protocol changes in steps of Panel::loadProtocolFile only
C30_EditorIsolation ==
  [][/\ EditorSlotStep =>
          /\ PanelProtocol' = PanelProtocol
          /\ comp' = comp /\ fifo' = fifo /\ ctrace' = ctrace
     /\ (variant # "legacy" /\ PanelProtocol' # PanelProtocol) => PanelLoadStep
    ]_vars

\* an edit of the editor's protocol has been made beside a protocol the Panel
\* had loaded, and the two differ
C30_Witness ==
  /\ variant = "editor"
  /\ editor.edits >= 1 /\ editor.op # "none"
  /\ panel.protocol # <<>>
  /\ protocol # panel.protocol
====
